---- MODULE Spec2Model ----
(***************************************************************************)
(* deep-llama: the translation orchestrator (TranslationServiceImpl), the  *)
(* inference client (OllamaServiceImpl) and the settings repository        *)
(* (TranslationSettingsRepositoryImpl).  JavaScript runs one flow of       *)
(* control: every action below is the code one call runs between two       *)
(* waits for a collaborator, the backend or the store.                     *)
(*   Spec        translate and cancelTranslation, the collaborators'       *)
(*               answers chosen per request                                *)
(*   ClientSpec  the operations of OllamaServiceImpl, overlapping          *)
(*   RepoSpec    the operations of TranslationSettingsRepositoryImpl,      *)
(*               overlapping                                               *)
(*   RouterSpec  modelsRouter.addModel on that repository                  *)
(*   BoundarySpec   the input validation of translationRouter              *)
(*   ContainerSpec  the getters of DIContainer, overlapping                *)
(***************************************************************************)
EXTENDS Integers, Sequences, FiniteSets, TLC

\* ------------------------------------------------------------------ bounds
MaxCalls == 2
MaxCancels == 2
MaxOps == 2
MaxRepoOps == 3
MaxGets == 3

Calls == 1..MaxCalls
Ops == 1..MaxOps
RepoOps == 1..MaxRepoOps
Gets == 1..MaxGets

\* ------------------------------------------------------------------ values
\* A string is a sequence of chunks; ":latest" is one chunk, " " is one chunk.
\* undefined and "" are both falsy in the code and are both <<>> here.
Undefined == <<>>
NoLang == "none"
Latest == ":latest"

Truthy(s) == s # <<>>

NameA == <<"a">>
NameALatest == <<"a", Latest>>
NameB == <<"b">>
NameZ == <<"zz">>

ChatReplies == { <<" ", "k", " ">> }
\* The backend is another process and the store is shared with the settings
\* handlers: what a list request or a store read returns is chosen per request.
BackendLists == { <<>>, <<NameALatest, NameB>> }
ListFails == <<"list() threw">>
BackendAnswers == BackendLists \cup {ListFails}
DefaultModels == { Undefined, NameA }
StoreFails == <<"store.get threw">>
StoreAnswers == DefaultModels \cup {StoreFails}

Requests ==
  { [text |-> <<"h">>, sourceLanguage |-> NoLang, targetLanguage |-> "ja", modelName |-> Undefined],
    [text |-> <<"h">>, sourceLanguage |-> "en", targetLanguage |-> NoLang, modelName |-> NameA],
    [text |-> <<" ", "h", " ">>, sourceLanguage |-> "en", targetLanguage |-> "en", modelName |-> Undefined],
    [text |-> <<"h">>, sourceLanguage |-> "en", targetLanguage |-> "ja", modelName |-> Undefined],
    [text |-> <<"h">>, sourceLanguage |-> "en", targetLanguage |-> "ja", modelName |-> NameA],
    [text |-> <<" ", "h", " ">>, sourceLanguage |-> "ja", targetLanguage |-> "en", modelName |-> NameZ] }

\* error values a translate call can reject with
ErrLanguages == "Source and target languages are required"
ErrNoModels == "No available models found"
ErrTypeError == "TypeError: Cannot read properties of null (reading 'signal')"
ErrListFailed == "Failed to list models"
ErrModelNotFound == "Translation failed: Model not found in Ollama"
ErrChatFailed == "Translation failed"
ErrUsageFailed == "store.set threw"

NoResponse == [translatedText |-> <<>>, sourceLanguage |-> NoLang,
               targetLanguage |-> NoLang, modelUsed |-> Undefined]
NoRequest == [text |-> <<>>, sourceLanguage |-> NoLang,
              targetLanguage |-> NoLang, modelName |-> Undefined]
NoResolution == [requestedExists |-> "na", settingsRead |-> FALSE, defaultModel |-> Undefined,
                 defaultExists |-> "na", listed |-> FALSE, availableModels |-> <<>>]

\* ------------------------------------------------------------------ state
VARIABLES
  isCurrentlyTranslating,  \* TranslationServiceImpl.isCurrentlyTranslating
  activeController,        \* TranslationServiceImpl.activeController: 0 is null, c is the controller call c created
  aborted,                 \* the controllers whose abort() has run
  pc,                      \* where each translate call stands
  request,                 \* the call's argument
  resolution,              \* the locals of getModelToUse
  modelName,               \* translate's local modelName
  signal,                  \* the signal the call handed to chat (0: none)
  translatedText,          \* translate's local translatedText
  response,                \* what the call resolved with
  error,                   \* what the call rejected with
  invoked,                 \* the collaborator operations the call invoked, in order
  raised,                  \* the failure getModelToUse or chat raised to the call ("": none)
  warned,                  \* the calls whose updateModelUsage failure was caught and logged
  cancelCount,             \* how many cancelTranslation() calls were made
  cancelReturn             \* what the last cancelTranslation() returned

svcVars == <<isCurrentlyTranslating, activeController>>
callVars == <<pc, request, resolution, modelName, signal, translatedText, response, error, invoked,
              raised, warned>>
cancelVars == <<aborted, cancelCount, cancelReturn>>
translationVars == <<svcVars, callVars, cancelVars>>

\* OllamaServiceImpl on its own, called by any number of handlers.  An await
\* of updateConnectionStatus waits only for promises that are already settled
\* (statusUpdateInProgress is settled as soon as it is created), so the
\* operation goes on in the same run of the job queue; another operation can
\* run in between only where this one waits for the backend.
VARIABLES
  connectionStatus,        \* OllamaServiceImpl.connectionStatus
  clientOp                 \* the operations called on the client: what was called, where it stands, what it got

clientVars == <<connectionStatus, clientOp>>

\* TranslationSettingsRepositoryImpl on its own, called by any number of handlers
VARIABLES
  store,                   \* what the TypedStore holds under "translation-settings"
  DEFAULT_SETTINGS,        \* the object TranslationSettingsRepositoryImpl.DEFAULT_SETTINGS
  repoOp,                  \* the operations called on the repository
  routerCall               \* the models router's addModel call

repoVars == <<store, DEFAULT_SETTINGS, repoOp, routerCall>>

\* the tRPC boundary of the translation router and the DI container
VARIABLES
  boundaryCall,            \* a translate / translateText request at the translation router
  initialized,             \* DIContainer.initialized
  services,                \* the objects the container's fields hold: 0 undefined, n those the n-th construction built
  built,                   \* how many times ensureInitialized constructed the repositories and services
  getCall                  \* the container getter calls

edgeVars == <<boundaryCall, initialized, services, built, getCall>>
vars == <<translationVars, clientVars, repoVars, edgeVars>>

InFlightPcs == {"reqExists", "settings", "defExists", "list", "chatExists", "chatBackend", "usage"}
InFlight(c) == pc[c] \in InFlightPcs
Settled(c) == pc[c] \in {"resolved", "rejected"}
InFlightCalls == {c \in Calls : InFlight(c)}

TranslationInit ==
  /\ isCurrentlyTranslating = FALSE
  /\ activeController = 0
  /\ aborted = {}
  /\ pc = [c \in Calls |-> "idle"]
  /\ request = [c \in Calls |-> NoRequest]
  /\ resolution = [c \in Calls |-> NoResolution]
  /\ modelName = [c \in Calls |-> Undefined]
  /\ signal = [c \in Calls |-> 0]
  /\ translatedText = [c \in Calls |-> <<>>]
  /\ response = [c \in Calls |-> NoResponse]
  /\ error = [c \in Calls |-> ""]
  /\ invoked = [c \in Calls |-> <<>>]
  /\ raised = [c \in Calls |-> ""]
  /\ warned = {}
  /\ cancelCount = 0
  /\ cancelReturn = FALSE

\* ---------------------------------------------- client values and Init
NameAQ == <<"a", "q">>
NameALatestQ == <<"a", Latest, "q">>

\* An error message is the set of the substrings handleError looks for that
\* occur in it.
MsgRefused == {"ECONNREFUSED", "connect"}
MsgTimeout == {"timeout"}
MsgOther == {}
\* chat: new Error(`Model "${request.model}" not found in Ollama`)
MsgModelNotFound == {"not found"}

ClientLists == { <<>>, <<NameALatest>>, <<NameAQ, NameB>> }
ListFailures == {MsgRefused, MsgTimeout}
ChatFailures == {MsgRefused, MsgOther}

NoAnswer == [got |-> "none", models |-> <<>>, msg |-> {}]
Listed(models) == [got |-> "list", models |-> models, msg |-> {}]
Failed(msg) == [got |-> "error", models |-> <<>>, msg |-> msg]
ListAnswers == {Listed(l) : l \in ClientLists} \cup {Failed(m) : m \in ListFailures}

ClientCalls ==
  { [kind |-> "isConnected", model |-> Undefined],
    [kind |-> "getConnectionStatus", model |-> Undefined],
    [kind |-> "listModels", model |-> Undefined],
    [kind |-> "modelExists", model |-> NameA],
    [kind |-> "modelExists", model |-> NameALatest],
    [kind |-> "modelExists", model |-> NameALatestQ],
    [kind |-> "chat", model |-> NameA],
    [kind |-> "chat", model |-> NameB],
    [kind |-> "chatStream", model |-> NameB] }

\* kind and model: the call; pc: "idle", "list" (ollama.list() is in flight),
\* "chat" (ollama.chat() is in flight), "stream" (the stream is being read),
\* "done" (returned), "failed" (threw); answer: what ollama.list() gave;
\* exists: what the call's modelExists returned; chatRequests: how many
\* ollama.chat() requests the call issued; chatMsg: the message ollama.chat()
\* failed with; aborted: request.signal was aborted while ollama.chat() was in
\* flight; result: the value returned or the code of the TranslationError thrown
NoClientOp == [kind |-> "none", model |-> Undefined, pc |-> "idle", answer |-> NoAnswer,
               exists |-> "na", chatRequests |-> 0, chatMsg |-> {}, aborted |-> FALSE,
               result |-> ""]

ClientInit ==
  /\ connectionStatus = "disconnected"
  /\ clientOp = [o \in Ops |-> NoClientOp]

\* ------------------------------------------ repository values and Init
\* a TranslationModel; lastUsed 0 is undefined
ModelA == [name |-> NameA, isDefault |-> FALSE, lastUsed |-> 0]
ModelB == [name |-> NameB, isDefault |-> TRUE, lastUsed |-> 0]

\* DEFAULT_SETTINGS as the constructor builds it
EmptySettings == [defaultModel |-> Undefined, models |-> <<>>]

\* the store holds nothing, data that fails TranslationSettingsSchema, or settings
NothingStored == [kind |-> "none", data |-> EmptySettings]
InvalidStored == [kind |-> "invalid", data |-> EmptySettings]
Stored(settings) == [kind |-> "valid", data |-> settings]

\* updateSettings is called with { defaultModel: model.name }
RepoCalls ==
  { [kind |-> "getSettings", model |-> ModelA],
    [kind |-> "addModel", model |-> ModelA],
    [kind |-> "addModel", model |-> ModelB],
    [kind |-> "removeModel", model |-> ModelA],
    [kind |-> "setDefaultModel", model |-> ModelB],
    [kind |-> "updateSettings", model |-> ModelA],
    [kind |-> "updateModelUsage", model |-> ModelA] }

\* the input of the models router's addModel
RouterInputs == { [name |-> NameA, makeDefault |-> TRUE], [name |-> NameA, makeDefault |-> FALSE] }
\* the repository calls other handlers make while the router's addModel runs
RouterPeers == { [kind |-> "addModel", model |-> ModelB] }

\* kind and model: the call (model.name is the argument of the calls that
\* take a name); pc: "idle", "get" (store.get is awaited), "set" (store.set is
\* awaited), "returned", "threw"; read: what getSettings found ("nothing",
\* "failed", "invalid", "valid"); shared: the call's settings object is
\* DEFAULT_SETTINGS itself; settings: what getSettings returned to the call;
\* written: the value handed to store.set; result: the settings returned;
\* by: "handler" for a call of its own, "router" for a call made by the
\* models router's addModel
NoRepoOp == [kind |-> "none", model |-> ModelA, pc |-> "idle", read |-> "none", shared |-> FALSE,
             settings |-> EmptySettings, written |-> EmptySettings, result |-> EmptySettings,
             by |-> "handler"]

\* pc: "idle", "exists" (ollamaService.modelExists is awaited), "adding",
\* "defaulting", "rollback" (the repository call in slot is awaited),
\* "returned", "threw"; before: what the store held when the call began
NoRouterCall == [pc |-> "idle", input |-> [name |-> NameA, makeDefault |-> FALSE],
                 before |-> NothingStored, slot |-> 0]

RepoFresh ==
  /\ store = NothingStored
  /\ DEFAULT_SETTINGS = EmptySettings
  /\ repoOp = [o \in RepoOps |-> NoRepoOp]
  /\ routerCall = NoRouterCall

\* what an earlier run that added ModelA to an empty store left behind
OneModelStored == Stored([defaultModel |-> NameA, models |-> <<ModelA>>])

RepoInit ==
  /\ store \in {NothingStored, InvalidStored, OneModelStored}
  /\ DEFAULT_SETTINGS = EmptySettings
  /\ repoOp = [o \in RepoOps |-> NoRepoOp]
  /\ routerCall = NoRouterCall

\* ------------------------------------- boundary and container values
\* a field of a request object: absent, or present with a string value
AbsentString == [present |-> FALSE, value |-> <<>>]
AbsentLanguage == [present |-> FALSE, value |-> "none"]
Present(v) == [present |-> TRUE, value |-> v]

SupportedLanguage == {"ja", "en"}

\* the request objects a client sends to translate or translateText
BoundaryInputs ==
  [ text : {AbsentString, Present(<<>>), Present(<<"h">>)},
    sourceLanguage : {AbsentLanguage, Present("en"), Present("ja"), Present("fr")},
    targetLanguage : {AbsentLanguage, Present("en"), Present("ja"), Present("fr")},
    modelName : {AbsentString, Present(<<>>), Present(NameA)} ]

Procedures == {"translate", "translateText"}

NoBoundaryCall ==
  [pc |-> "idle", procedure |-> "translate",
   input |-> [text |-> AbsentString, sourceLanguage |-> AbsentLanguage,
              targetLanguage |-> AbsentLanguage, modelName |-> AbsentString]]

Getters == {"getTranslationService", "getOllamaService", "getTranslationSettingsRepository"}

NoGetCall == [pc |-> "idle", getter |-> "getTranslationService", result |-> 0]

EdgeInit ==
  /\ boundaryCall = NoBoundaryCall
  /\ initialized = FALSE
  /\ services = 0
  /\ built = 0
  /\ getCall = [g \in Gets |-> NoGetCall]

Init == TranslationInit /\ ClientInit /\ RepoFresh /\ EdgeInit

\* ------------------------------------------------------- pure functions
RECURSIVE ReplaceLatest(_)
\* String.prototype.replace(":latest", ""): drops the first occurrence only
ReplaceLatest(s) ==
  IF s = <<>> THEN <<>>
  ELSE IF Head(s) = Latest THEN Tail(s)
  ELSE <<Head(s)>> \o ReplaceLatest(Tail(s))

\* OllamaServiceImpl.modelExists on a list that was read successfully
ModelExists(models, name) ==
  LET exactMatch == \E i \in 1..Len(models) : models[i] = name
      baseModelName == ReplaceLatest(name)
      baseMatch == \E i \in 1..Len(models) :
                      \/ models[i] = baseModelName
                      \/ models[i] = baseModelName \o <<Latest>>
  IN exactMatch \/ baseMatch

RECURSIVE TrimStart(_)
TrimStart(s) == IF s # <<>> /\ Head(s) = " " THEN TrimStart(Tail(s)) ELSE s

RECURSIVE TrimEnd(_)
TrimEnd(s) ==
  IF s # <<>> /\ s[Len(s)] = " " THEN TrimEnd(SubSeq(s, 1, Len(s) - 1)) ELSE s

\* String.prototype.trim
Trim(s) == TrimEnd(TrimStart(s))

\* OllamaServiceImpl.modelExists: false when listModels threw
ModelExistsResult(answer, name) == answer # ListFails /\ ModelExists(answer, name)

\* getSettings().defaultModel: DEFAULT_SETTINGS when the store read threw
GetSettingsDefault(stored) == IF stored = StoreFails THEN Undefined ELSE stored

\* the isTranslating() read
IsTranslating == isCurrentlyTranslating

YesNo(b) == IF b THEN "yes" ELSE "no"

\* ------------------------------------------------- the orchestrator's state
\* the busy flag and the token slot, as one value the steps below transform
Cur == [busy |-> isCurrentlyTranslating, ctrl |-> activeController]
SetSvc(s) == isCurrentlyTranslating' = s.busy /\ activeController' = s.ctrl

EnterKeepsSlot(c, s) == [busy |-> TRUE, ctrl |-> IF s.ctrl = 0 THEN c ELSE s.ctrl]
EnterNoFlag(c, s) == [busy |-> s.busy, ctrl |-> c]
\* translate, entry: the flag is set and a new AbortController takes the slot
EnterState(c, s) == [busy |-> TRUE, ctrl |-> c]

FinallyOnSuccessOnly(s, ok) == IF ok THEN [busy |-> FALSE, ctrl |-> 0] ELSE s
\* translate, finally block
FinallyState(s, ok) == [busy |-> FALSE, ctrl |-> 0]

ValidSourceOnly(req) == req.sourceLanguage # NoLang
\* translate: if (!sourceLanguage || !targetLanguage) throw
Valid(req) == req.sourceLanguage # NoLang /\ req.targetLanguage # NoLang

ShortCircuitTrimmed(req) == Trim(req.text)
\* translate: translatedText of the same-language return
ShortCircuitText(req) == req.text

ChatModelBase(c, m) == ReplaceLatest(m)
\* performTranslation: the model field of the chat request
ChatModel(c, m) == m

UseRequestedAlways(exists) == TRUE
\* getModelToUse: if (modelExists) return requestedModel
UseRequested(exists) == exists

\* translate returns resp; the finally block runs
Resolve(c, resp) ==
  /\ pc' = [pc EXCEPT ![c] = "resolved"]
  /\ response' = [response EXCEPT ![c] = resp]
  /\ UNCHANGED <<error, raised>>
  /\ SetSvc(FinallyState(Cur, TRUE))
  /\ UNCHANGED <<clientVars, repoVars, edgeVars>>

ResolveWith(c, resp) == Resolve(c, resp) /\ UNCHANGED warned

\* translate throws e itself; the finally block runs
RejectWith(c, e) ==
  /\ pc' = [pc EXCEPT ![c] = "rejected"]
  /\ error' = [error EXCEPT ![c] = e]
  /\ UNCHANGED <<response, raised, warned>>
  /\ SetSvc(FinallyState(Cur, FALSE))
  /\ UNCHANGED <<clientVars, repoVars, edgeVars>>

PropagatedAsGeneric(e) == ErrChatFailed
\* translate has try/finally and no catch: what a collaborator throws leaves
\* translate as it is
Propagated(e) == e

\* getModelToUse or chat throws e to translate; the finally block runs
Raise(c, e) ==
  /\ pc' = [pc EXCEPT ![c] = "rejected"]
  /\ raised' = [raised EXCEPT ![c] = e]
  /\ error' = [error EXCEPT ![c] = Propagated(e)]
  /\ UNCHANGED <<response, warned>>
  /\ SetSvc(FinallyState(Cur, FALSE))
  /\ UNCHANGED <<clientVars, repoVars, edgeVars>>

Await(c, p) ==
  /\ pc' = [pc EXCEPT ![c] = p]
  /\ UNCHANGED <<response, error, raised, warned, svcVars>>
  /\ UNCHANGED <<clientVars, repoVars, edgeVars>>

Log(c, svc, op, arg) == [invoked EXCEPT ![c] = Append(invoked[c], <<svc, op, arg>>)]

\* translate once getModelToUse returned m: the same-language return, or the
\* read of this.activeController.signal and the call of chat
AfterModel(c, m) ==
  /\ modelName' = [modelName EXCEPT ![c] = m]
  /\ IF request[c].sourceLanguage = request[c].targetLanguage
     THEN /\ ResolveWith(c, [translatedText |-> ShortCircuitText(request[c]),
                             sourceLanguage |-> request[c].sourceLanguage,
                             targetLanguage |-> request[c].targetLanguage,
                             modelUsed |-> m])
          /\ UNCHANGED <<signal, invoked>>
     ELSE IF activeController = 0
     THEN /\ RejectWith(c, ErrTypeError)
          /\ UNCHANGED <<signal, invoked>>
     ELSE /\ Await(c, "chatExists")
          /\ signal' = [signal EXCEPT ![c] = activeController]
          /\ invoked' = Log(c, "ollama", "chat", ChatModel(c, m))

\* ------------------------------------------------------------- translate
\* translate(req), up to its first await
Translate(c, req) ==
  /\ pc[c] = "idle"
  /\ c > 1 => pc[c - 1] # "idle"
  /\ request' = [request EXCEPT ![c] = req]
  /\ UNCHANGED <<resolution, modelName, signal, translatedText, raised, warned, cancelVars>>
  /\ UNCHANGED <<clientVars, repoVars, edgeVars>>
  /\ IF ~Valid(req)
     THEN /\ pc' = [pc EXCEPT ![c] = "rejected"]
          /\ error' = [error EXCEPT ![c] = ErrLanguages]
          /\ SetSvc(FinallyState(EnterState(c, Cur), FALSE))
          /\ UNCHANGED <<response, invoked>>
     ELSE /\ SetSvc(EnterState(c, Cur))
          /\ UNCHANGED <<response, error>>
          /\ IF Truthy(req.modelName)
             THEN /\ pc' = [pc EXCEPT ![c] = "reqExists"]
                  /\ invoked' = Log(c, "ollama", "modelExists", req.modelName)
             ELSE /\ pc' = [pc EXCEPT ![c] = "settings"]
                  /\ invoked' = Log(c, "settings", "getSettings", <<>>)

\* getModelToUse: modelExists(requestedModel) returned
RequestedExists(c) ==
  /\ pc[c] = "reqExists"
  /\ \E list \in BackendAnswers :
       LET exists == ModelExistsResult(list, request[c].modelName) IN
       /\ resolution' = [resolution EXCEPT ![c].requestedExists = YesNo(exists)]
       /\ IF UseRequested(exists)
          THEN AfterModel(c, request[c].modelName)
          ELSE /\ Await(c, "settings")
               /\ invoked' = Log(c, "settings", "getSettings", <<>>)
               /\ UNCHANGED <<modelName, signal>>
  /\ UNCHANGED <<request, translatedText, cancelVars>>

\* getModelToUse: getSettings returned (the defaults when the store read failed)
SettingsRead(c) ==
  /\ pc[c] = "settings"
  /\ \E stored \in StoreAnswers :
       LET d == GetSettingsDefault(stored) IN
       /\ resolution' = [resolution EXCEPT ![c].settingsRead = TRUE, ![c].defaultModel = d]
       /\ IF Truthy(d)
          THEN /\ Await(c, "defExists")
               /\ invoked' = Log(c, "ollama", "modelExists", d)
          ELSE /\ Await(c, "list")
               /\ invoked' = Log(c, "ollama", "listModels", <<>>)
  /\ UNCHANGED <<request, modelName, signal, translatedText, cancelVars>>

\* getModelToUse: modelExists(settings.defaultModel) returned
DefaultExists(c) ==
  /\ pc[c] = "defExists"
  /\ \E list \in BackendAnswers :
       LET exists == ModelExistsResult(list, resolution[c].defaultModel) IN
       /\ resolution' = [resolution EXCEPT ![c].defaultExists = YesNo(exists)]
       /\ IF exists
          THEN AfterModel(c, resolution[c].defaultModel)
          ELSE /\ Await(c, "list")
               /\ invoked' = Log(c, "ollama", "listModels", <<>>)
               /\ UNCHANGED <<modelName, signal>>
  /\ UNCHANGED <<request, translatedText, cancelVars>>

\* getModelToUse: listModels returned or threw
ModelsListed(c) ==
  /\ pc[c] = "list"
  /\ \E list \in BackendAnswers :
       IF list = ListFails
       THEN /\ Raise(c, ErrListFailed)
            /\ UNCHANGED <<resolution, modelName, signal, invoked>>
       ELSE /\ resolution' = [resolution EXCEPT ![c].listed = TRUE,
                                                ![c].availableModels = list]
            /\ IF Len(list) > 0
               THEN AfterModel(c, list[1])
               ELSE /\ Raise(c, ErrNoModels)
                    /\ UNCHANGED <<modelName, signal, invoked>>
  /\ UNCHANGED <<request, translatedText, cancelVars>>

\* OllamaServiceImpl.chat: its own modelExists(request.model) returned
ChatModelChecked(c) ==
  /\ pc[c] = "chatExists"
  /\ \E list \in BackendAnswers :
       IF ModelExistsResult(list, invoked[c][Len(invoked[c])][3])
       THEN Await(c, "chatBackend")
       ELSE Raise(c, ErrModelNotFound)
  /\ UNCHANGED <<request, resolution, modelName, signal, translatedText, invoked, cancelVars>>

UsageModelRequested(c) == request[c].modelName
\* translate: await this.updateModelUsage(modelName)
UsageModel(c) == modelName[c]

\* OllamaServiceImpl.chat: the backend answered or failed; the request's signal
\* is not handed to the backend call, so an aborted signal changes nothing here
ChatAnswered(c) ==
  /\ pc[c] = "chatBackend"
  /\ \/ /\ Raise(c, ErrChatFailed)
        /\ UNCHANGED <<translatedText, invoked>>
     \/ \E content \in ChatReplies :
          /\ translatedText' = [translatedText EXCEPT ![c] = Trim(content)]
          /\ Await(c, "usage")
          /\ invoked' = Log(c, "settings", "updateModelUsage", UsageModel(c))
  /\ UNCHANGED <<request, resolution, modelName, signal, cancelVars>>

UsageFailureThrown(ok) == ok
\* TranslationServiceImpl.updateModelUsage: try { await
\* settingsRepository.updateModelUsage } catch { console.warn }: it returns
\* normally whether the repository call succeeded (ok) or threw
UsageFailureCaught(ok) == TRUE

\* translate: updateModelUsage returned (its failure is caught and logged)
UsageRecorded(c) ==
  /\ pc[c] = "usage"
  /\ \E ok \in BOOLEAN :
       IF UsageFailureCaught(ok)
       THEN /\ Resolve(c, [translatedText |-> translatedText[c],
                           sourceLanguage |-> request[c].sourceLanguage,
                           targetLanguage |-> request[c].targetLanguage,
                           modelUsed |-> modelName[c]])
            /\ warned' = IF ok THEN warned ELSE warned \cup {c}
       ELSE RejectWith(c, ErrUsageFailed)
  /\ UNCHANGED <<request, resolution, modelName, signal, translatedText, invoked, cancelVars>>

\* cancelTranslation: if (this.activeController && this.isCurrentlyTranslating)
CancelGuard == activeController # 0 /\ isCurrentlyTranslating

CancelKeepsFlag(s) == [busy |-> s.busy, ctrl |-> 0]
\* cancelTranslation: the slot and the flag after abort()
CancelState(s) == [busy |-> FALSE, ctrl |-> 0]

\* cancelTranslation()
CancelTranslation ==
  /\ cancelCount < MaxCancels
  /\ cancelCount' = cancelCount + 1
  /\ IF CancelGuard
     THEN /\ aborted' = aborted \cup {activeController}
          /\ SetSvc(CancelState(Cur))
          /\ cancelReturn' = TRUE
     ELSE /\ cancelReturn' = FALSE
          /\ UNCHANGED <<aborted, svcVars>>
  /\ UNCHANGED callVars
  /\ UNCHANGED <<clientVars, repoVars, edgeVars>>

Next ==
  \/ \E c \in Calls, req \in Requests : Translate(c, req)
  \/ \E c \in Calls : RequestedExists(c)
  \/ \E c \in Calls : SettingsRead(c)
  \/ \E c \in Calls : DefaultExists(c)
  \/ \E c \in Calls : ModelsListed(c)
  \/ \E c \in Calls : ChatModelChecked(c)
  \/ \E c \in Calls : ChatAnswered(c)
  \/ \E c \in Calls : UsageRecorded(c)
  \/ CancelTranslation

Spec == Init /\ [][Next]_vars

\* ------------------------------------------------------ OllamaServiceImpl
Contains(msg, sub) == sub \in msg

\* handleError: the code of the TranslationError built from an error message
HandleError(msg) ==
  IF Contains(msg, "ECONNREFUSED") \/ Contains(msg, "connect") THEN "OLLAMA_NOT_RUNNING"
  ELSE IF Contains(msg, "not found") \/ Contains(msg, "model") THEN "MODEL_NOT_FOUND"
  ELSE IF Contains(msg, "network") \/ Contains(msg, "timeout") THEN "NETWORK_ERROR"
  ELSE "TRANSLATION_FAILED"

\* isConnected: "connected" after list() answered, "disconnected" after it threw
ProbeStatus(answer) == IF answer.got = "list" THEN "connected" ELSE "disconnected"

StatusReadEarly(before, after) == before
\* getConnectionStatus: await this.isConnected(); return this.connectionStatus
StatusReturned(before, after) == after

ChatProceedsAlways(exists) == TRUE
\* chat, chatStream: if (!(await this.modelExists(request.model))) throw
ChatProceeds(exists) == exists

Bool(b) == IF b THEN "true" ELSE "false"

\* modelExists: false when listModels threw, else the match on the names listed
ClientModelExists(answer, name) == answer.got = "list" /\ ModelExists(answer.models, name)

ListStatusLeftConnecting(answer) == IF answer.got = "list" THEN "connected" ELSE "connecting"
\* listModels: updateConnectionStatus("connected") after ollama.list(),
\* updateConnectionStatus("error") in its catch
ListStatus(answer) == IF answer.got = "list" THEN "connected" ELSE "error"

StatusUsers == {"listModels", "modelExists", "chat", "chatStream"}

\* an operation is called; it runs up to its ollama.list() request.
\* listModels sets "connecting" first (chat and chatStream set it, then call
\* modelExists, which calls listModels); isConnected does not.
ClientStart(o, call) ==
  /\ clientOp[o].pc = "idle"
  /\ o > 1 => clientOp[o - 1].pc # "idle"
  /\ clientOp' = [clientOp EXCEPT ![o] = [NoClientOp EXCEPT !.kind = call.kind,
                                                          !.model = call.model,
                                                          !.pc = "list"]]
  /\ connectionStatus' = IF call.kind \in StatusUsers THEN "connecting" ELSE connectionStatus
  /\ UNCHANGED <<translationVars, repoVars, edgeVars>>

\* ollama.list() answered or threw; the operation runs to its return, its
\* throw or its ollama.chat() request
ClientListAnswered(o) ==
  /\ clientOp[o].pc = "list"
  /\ \E answer \in ListAnswers :
       LET op == [clientOp[o] EXCEPT !.answer = answer]
           exists == ClientModelExists(answer, op.model)
           listStatus == ListStatus(answer)
       IN
       CASE op.kind = "isConnected" ->
              /\ connectionStatus' = ProbeStatus(answer)
              /\ clientOp' = [clientOp EXCEPT ![o] =
                    [op EXCEPT !.pc = "done", !.result = Bool(answer.got = "list")]]
         [] op.kind = "getConnectionStatus" ->
              /\ connectionStatus' = ProbeStatus(answer)
              /\ clientOp' = [clientOp EXCEPT ![o] =
                    [op EXCEPT !.pc = "done",
                               !.result = StatusReturned(connectionStatus, ProbeStatus(answer))]]
         [] op.kind = "listModels" ->
              /\ connectionStatus' = listStatus
              /\ clientOp' = [clientOp EXCEPT ![o] =
                    IF answer.got = "list"
                    THEN [op EXCEPT !.pc = "done", !.result = "models"]
                    ELSE [op EXCEPT !.pc = "failed", !.result = HandleError(answer.msg)]]
         [] op.kind = "modelExists" ->
              /\ connectionStatus' = listStatus
              /\ clientOp' = [clientOp EXCEPT ![o] =
                    [op EXCEPT !.pc = "done", !.exists = Bool(exists), !.result = Bool(exists)]]
         [] op.kind \in {"chat", "chatStream"} ->
              IF ChatProceeds(exists)
              THEN /\ connectionStatus' = listStatus
                   /\ clientOp' = [clientOp EXCEPT ![o] =
                         [op EXCEPT !.pc = "chat", !.exists = Bool(exists), !.chatRequests = 1]]
              ELSE /\ connectionStatus' = "error"
                   /\ clientOp' = [clientOp EXCEPT ![o] =
                         [op EXCEPT !.pc = "failed", !.exists = Bool(exists),
                                    !.result = HandleError(MsgModelNotFound)]]
  /\ UNCHANGED <<translationVars, repoVars, edgeVars>>

\* ollama.chat() answered or threw.  The options chat hands to ollama.chat()
\* are model, messages, stream and options: request.signal is not among them.
ClientChatAnswered(o) ==
  /\ clientOp[o].pc = "chat"
  /\ \/ /\ connectionStatus' = "connected"
        /\ clientOp' = [clientOp EXCEPT ![o] =
              IF clientOp[o].kind = "chat"
              THEN [clientOp[o] EXCEPT !.pc = "done", !.result = "content"]
              ELSE [clientOp[o] EXCEPT !.pc = "stream"]]
     \/ \E msg \in ChatFailures :
          /\ connectionStatus' = "error"
          /\ clientOp' = [clientOp EXCEPT ![o] =
                [clientOp[o] EXCEPT !.pc = "failed", !.chatMsg = msg, !.result = HandleError(msg)]]
  /\ UNCHANGED <<translationVars, repoVars, edgeVars>>

\* chatStream: the stream ended or threw while its chunks were read
ClientStreamEnded(o) ==
  /\ clientOp[o].pc = "stream"
  /\ \/ /\ clientOp' = [clientOp EXCEPT ![o] = [clientOp[o] EXCEPT !.pc = "done", !.result = "chunks"]]
        /\ UNCHANGED connectionStatus
     \/ \E msg \in ChatFailures :
          /\ connectionStatus' = "error"
          /\ clientOp' = [clientOp EXCEPT ![o] =
                [clientOp[o] EXCEPT !.pc = "failed", !.chatMsg = msg, !.result = HandleError(msg)]]
  /\ UNCHANGED <<translationVars, repoVars, edgeVars>>

\* the caller aborts the signal it put in the chat request while ollama.chat()
\* is in flight
ClientAbort(o) ==
  /\ clientOp[o].kind = "chat"
  /\ clientOp[o].pc = "chat"
  /\ ~clientOp[o].aborted
  /\ clientOp' = [clientOp EXCEPT ![o] = [clientOp[o] EXCEPT !.aborted = TRUE]]
  /\ UNCHANGED <<connectionStatus, translationVars, repoVars, edgeVars>>

ClientNext ==
  \/ \E o \in Ops, call \in ClientCalls : ClientStart(o, call)
  \/ \E o \in Ops : ClientListAnswered(o)
  \/ \E o \in Ops : ClientChatAnswered(o)
  \/ \E o \in Ops : ClientStreamEnded(o)
  \/ \E o \in Ops : ClientAbort(o)

ClientSpec == Init /\ [][ClientNext]_vars

\* ------------------------------------ TranslationSettingsRepositoryImpl
IndexOf(models, name) ==
  IF \E i \in 1..Len(models) : models[i].name = name
  THEN CHOOSE i \in 1..Len(models) :
         models[i].name = name /\ \A j \in 1..(i - 1) : models[j].name # name
  ELSE 0

RECURSIVE Without(_, _)
\* models.filter((m) => m.name !== modelName)
Without(models, name) ==
  IF models = <<>> THEN <<>>
  ELSE IF Head(models).name = name THEN Without(Tail(models), name)
  ELSE <<Head(models)>> \o Without(Tail(models), name)

\* addModel: the settings object after lines 60-73
Added(settings, model) ==
  LET i == IndexOf(settings.models, model.name)
      models == IF i > 0 THEN [settings.models EXCEPT ![i] = model]
                ELSE Append(settings.models, model)
  IN [defaultModel |-> IF Len(models) = 1 /\ ~Truthy(settings.defaultModel)
                       THEN model.name ELSE settings.defaultModel,
      models |-> models]

RemovedKeepsDefault(settings, name) ==
  [defaultModel |-> settings.defaultModel, models |-> Without(settings.models, name)]
\* removeModel: the settings object after lines 81-87
Removed(settings, name) ==
  LET models == Without(settings.models, name)
  IN [defaultModel |-> IF settings.defaultModel = name
                       THEN IF Len(models) > 0 THEN models[1].name ELSE Undefined
                       ELSE settings.defaultModel,
      models |-> models]

\* updateModelUsage: the copy built by lines 118-123
Used(settings, name) ==
  LET i == IndexOf(settings.models, name)
  IN [settings EXCEPT !.models[i].lastUsed = 1]

\* updateSettings: { ...current, ...settings } with settings = { defaultModel }
Updated(current, defaultModel) == [current EXCEPT !.defaultModel = defaultModel]

\* getSettings: parsed.data when the stored data parses, else the object
\* this.DEFAULT_SETTINGS, whatever it holds by now
GetSettings(found, data) == IF found = "valid" THEN data ELSE DEFAULT_SETTINGS

\* what a store.get can meet: it throws, or it returns what the store holds
Found(threw) ==
  IF threw THEN "failed"
  ELSE IF store.kind = "none" THEN "nothing"
  ELSE store.kind

\* an operation is called; it runs up to the store.get of its getSettings
Started(o, kind, model, by) ==
  /\ repoOp[o].pc = "idle"
  /\ o > 1 => repoOp[o - 1].pc # "idle"
  /\ repoOp' = [repoOp EXCEPT ![o] = [NoRepoOp EXCEPT !.kind = kind, !.model = model,
                                                      !.pc = "get", !.by = by]]

RepoStart(o, call) ==
  /\ Started(o, call.kind, call.model, "handler")
  /\ UNCHANGED <<store, DEFAULT_SETTINGS, routerCall, translationVars, clientVars, edgeVars>>

\* store.get returned or threw; the operation runs to its return, its throw
\* or its store.set
RepoRead(o) ==
  /\ repoOp[o].pc = "get"
  /\ \E threw \in BOOLEAN :
       LET found == Found(threw)
           settings == GetSettings(found, store.data)
           shared == found # "valid"
           name == repoOp[o].model.name
           op == [repoOp[o] EXCEPT !.read = found, !.shared = shared, !.settings = settings]
           Mutate(new) ==
             /\ repoOp' = [repoOp EXCEPT ![o] = [op EXCEPT !.pc = "set", !.written = new]]
             /\ DEFAULT_SETTINGS' = IF shared THEN new ELSE DEFAULT_SETTINGS
       IN
       CASE op.kind = "getSettings" ->
              /\ repoOp' = [repoOp EXCEPT ![o] = [op EXCEPT !.pc = "returned", !.result = settings]]
              /\ UNCHANGED DEFAULT_SETTINGS
         [] op.kind = "addModel" -> Mutate(Added(settings, op.model))
         [] op.kind = "removeModel" -> Mutate(Removed(settings, name))
         [] op.kind = "setDefaultModel" ->
              IF IndexOf(settings.models, name) = 0
              THEN /\ repoOp' = [repoOp EXCEPT ![o] = [op EXCEPT !.pc = "threw"]]
                   /\ UNCHANGED DEFAULT_SETTINGS
              ELSE Mutate([settings EXCEPT !.defaultModel = name])
         [] op.kind = "updateSettings" ->
              /\ repoOp' = [repoOp EXCEPT ![o] =
                    [op EXCEPT !.pc = "set", !.shared = FALSE,
                               !.written = Updated(settings, name)]]
              /\ UNCHANGED DEFAULT_SETTINGS
         [] op.kind = "updateModelUsage" ->
              IF IndexOf(settings.models, name) = 0
              THEN /\ repoOp' = [repoOp EXCEPT ![o] = [op EXCEPT !.pc = "returned"]]
                   /\ UNCHANGED DEFAULT_SETTINGS
              ELSE /\ repoOp' = [repoOp EXCEPT ![o] =
                         [op EXCEPT !.pc = "set", !.shared = FALSE, !.written = Used(settings, name)]]
                   /\ UNCHANGED DEFAULT_SETTINGS
  /\ UNCHANGED <<store, routerCall, translationVars, clientVars, edgeVars>>

\* store.set returned or threw; the operation returns its settings object or
\* throws what store.set threw
RepoWritten(o) ==
  /\ repoOp[o].pc = "set"
  /\ \/ /\ store' = Stored(repoOp[o].written)
        /\ repoOp' = [repoOp EXCEPT ![o] =
              [repoOp[o] EXCEPT !.pc = "returned",
                                !.result = IF repoOp[o].shared THEN DEFAULT_SETTINGS
                                           ELSE repoOp[o].written]]
     \/ /\ repoOp' = [repoOp EXCEPT ![o] = [repoOp[o] EXCEPT !.pc = "threw"]]
        /\ UNCHANGED store
  /\ UNCHANGED <<DEFAULT_SETTINGS, routerCall, translationVars, clientVars, edgeVars>>

\* ------------------------------------------------ modelsRouter.addModel
\* the TranslationModel the router builds from its input (lines 37-42)
RouterModel(input) == [name |-> input.name, isDefault |-> input.makeDefault, lastUsed |-> 1]

RepoSettled(o) == repoOp[o].pc \in {"returned", "threw"}

\* the router calls a repository operation and awaits it
RouterCalls(kind, next) ==
  \E o \in RepoOps :
    /\ Started(o, kind, RouterModel(routerCall.input), "router")
    /\ routerCall' = [routerCall EXCEPT !.pc = next, !.slot = o]

RouterEnds(next) ==
  /\ routerCall' = [routerCall EXCEPT !.pc = next]
  /\ UNCHANGED repoOp

\* addModel is called; it runs up to ollamaService.modelExists(input.name)
RouterAddModel(input) ==
  /\ routerCall.pc = "idle"
  /\ routerCall' = [routerCall EXCEPT !.pc = "exists", !.input = input, !.before = store]
  /\ UNCHANGED <<store, DEFAULT_SETTINGS, repoOp, translationVars, clientVars, edgeVars>>

\* modelExists returned: throw, or call settingsRepository.addModel(model)
RouterModelChecked ==
  /\ routerCall.pc = "exists"
  /\ \E modelExists \in BOOLEAN :
       IF modelExists THEN RouterCalls("addModel", "adding") ELSE RouterEnds("threw")
  /\ UNCHANGED <<store, DEFAULT_SETTINGS, translationVars, clientVars, edgeVars>>

\* settingsRepository.addModel returned or threw
RouterAdded ==
  /\ routerCall.pc = "adding"
  /\ RepoSettled(routerCall.slot)
  /\ IF repoOp[routerCall.slot].pc = "threw" THEN RouterEnds("threw")
     ELSE IF routerCall.input.makeDefault THEN RouterCalls("setDefaultModel", "defaulting")
     ELSE RouterEnds("returned")
  /\ UNCHANGED <<store, DEFAULT_SETTINGS, translationVars, clientVars, edgeVars>>

\* settingsRepository.setDefaultModel returned or threw: return, or roll back
\* with settingsRepository.removeModel(input.name)
RouterDefaultSet ==
  /\ routerCall.pc = "defaulting"
  /\ RepoSettled(routerCall.slot)
  /\ IF repoOp[routerCall.slot].pc = "threw" THEN RouterCalls("removeModel", "rollback")
     ELSE RouterEnds("returned")
  /\ UNCHANGED <<store, DEFAULT_SETTINGS, translationVars, clientVars, edgeVars>>

\* settingsRepository.removeModel returned or threw: the router throws
RouterRolledBack ==
  /\ routerCall.pc = "rollback"
  /\ RepoSettled(routerCall.slot)
  /\ RouterEnds("threw")
  /\ UNCHANGED <<store, DEFAULT_SETTINGS, translationVars, clientVars, edgeVars>>

RepoNext ==
  \/ \E o \in RepoOps, call \in RepoCalls : RepoStart(o, call)
  \/ \E o \in RepoOps : RepoRead(o)
  \/ \E o \in RepoOps : RepoWritten(o)

\* the repository called by the models router's addModel and by another
\* handler's addModel
RouterNext ==
  \/ \E o \in RepoOps, call \in RouterPeers : RepoStart(o, call)
  \/ \E o \in RepoOps : RepoRead(o)
  \/ \E o \in RepoOps : RepoWritten(o)
  \/ \E input \in RouterInputs : RouterAddModel(input)
  \/ RouterModelChecked
  \/ RouterAdded
  \/ RouterDefaultSet
  \/ RouterRolledBack

\* the store of an installation may hold nothing or data of an older format
InitRepo == TranslationInit /\ ClientInit /\ RepoInit /\ EdgeInit

RepoSpec == InitRepo /\ [][RepoNext]_vars

RouterSpec == InitRepo /\ [][RouterNext]_vars

\* ------------------------------------------- translationRouter boundary
\* z.string().min(1)
StringMin1(f) == f.present /\ Len(f.value) >= 1
\* SupportedLanguage.optional()
OptionalLanguage(f) == ~f.present \/ f.value \in SupportedLanguage
\* z.string().optional()
OptionalString(f) == ~f.present \/ Len(f.value) >= 0

\* the schema TranslationRequest, the input of translate
TranslationRequest(input) ==
  /\ StringMin1(input.text)
  /\ OptionalLanguage(input.sourceLanguage)
  /\ OptionalLanguage(input.targetLanguage)
  /\ OptionalString(input.modelName)

\* the input schema of translateText
TranslateTextInput(input) ==
  /\ StringMin1(input.text)
  /\ OptionalLanguage(input.sourceLanguage)
  /\ OptionalLanguage(input.targetLanguage)
  /\ OptionalString(input.modelName)

InputParses(procedure, input) ==
  IF procedure = "translate" THEN TranslationRequest(input) ELSE TranslateTextInput(input)

\* a client calls translate or translateText with a request object
BoundaryCall(procedure, input) ==
  /\ boundaryCall.pc = "idle"
  /\ boundaryCall' = [pc |-> "received", procedure |-> procedure, input |-> input]
  /\ UNCHANGED <<initialized, services, built, getCall, translationVars, clientVars, repoVars>>

\* the procedure parses its input: it rejects the request, or its resolver
\* runs and calls translationService.translate with the parsed input
BoundaryParsed ==
  /\ boundaryCall.pc = "received"
  /\ boundaryCall' = [boundaryCall EXCEPT !.pc =
        IF InputParses(boundaryCall.procedure, boundaryCall.input) THEN "translate" ELSE "rejected"]
  /\ UNCHANGED <<initialized, services, built, getCall, translationVars, clientVars, repoVars>>

BoundaryNext ==
  \/ \E procedure \in Procedures, input \in BoundaryInputs : BoundaryCall(procedure, input)
  \/ BoundaryParsed

BoundarySpec == Init /\ [][BoundaryNext]_vars

\* ---------------------------------------------------------- DIContainer
\* a getter is called: ensureInitialized returns at once when initialized is
\* set and the getter returns the field; else it waits for getAppStore()
GetterCalled(g, getter) ==
  /\ getCall[g].pc = "idle"
  /\ g > 1 => getCall[g - 1].pc # "idle"
  /\ getCall' = [getCall EXCEPT ![g] =
        IF initialized
        THEN [pc |-> "returned", getter |-> getter, result |-> services]
        ELSE [pc |-> "store", getter |-> getter, result |-> 0]]
  /\ UNCHANGED <<boundaryCall, initialized, services, built, translationVars, clientVars, repoVars>>

\* getAppStore() returned or threw: ensureInitialized constructs the
\* repositories and the services, assigns them to the fields and sets
\* initialized
StoreOpened(g) ==
  /\ getCall[g].pc = "store"
  /\ \/ /\ built' = built + 1
        /\ services' = built + 1
        /\ initialized' = TRUE
        /\ getCall' = [getCall EXCEPT ![g] = [getCall[g] EXCEPT !.pc = "built"]]
     \/ /\ getCall' = [getCall EXCEPT ![g] = [getCall[g] EXCEPT !.pc = "threw"]]
        /\ UNCHANGED <<initialized, services, built>>
  /\ UNCHANGED <<boundaryCall, translationVars, clientVars, repoVars>>

\* the getter goes on after await this.ensureInitialized() and returns the
\* field as it is then: calls whose getAppStore() settled together have all
\* constructed by the time the first of them reads the field
GetterReturned(g) ==
  /\ getCall[g].pc = "built"
  /\ getCall' = [getCall EXCEPT ![g] = [getCall[g] EXCEPT !.pc = "returned", !.result = services]]
  /\ UNCHANGED <<boundaryCall, initialized, services, built, translationVars, clientVars, repoVars>>

ContainerNext ==
  \/ \E g \in Gets, getter \in Getters : GetterCalled(g, getter)
  \/ \E g \in Gets : StoreOpened(g)
  \/ \E g \in Gets : GetterReturned(g)

ContainerSpec == Init /\ [][ContainerNext]_vars

\* ------------------------------------------------------------ properties
ChatCalls(c) == {i \in 1..Len(invoked[c]) : invoked[c][i][1] = "ollama" /\ invoked[c][i][2] = "chat"}
Settles(c) == pc[c] \notin {"resolved", "rejected"} /\ pc'[c] \in {"resolved", "rejected"}
Enters(c) == pc[c] = "idle" /\ pc'[c] # "idle"
Cancels == cancelCount' = cancelCount + 1
SameLanguage(c) == Valid(request[c]) /\ request[c].sourceLanguage = request[c].targetLanguage
OneCall == \A c \in Calls \ {1} : pc[c] = "idle"
LastEntered == CHOOSE c \in Calls : pc[c] # "idle" /\ \A d \in Calls : pc[d] # "idle" => d <= c

\* C1: every settling of a translate call, resolving or rejecting, leaves the
\* busy flag false and the token slot empty; so whenever no translate call is
\* in flight, isTranslating() is false and no token is held.
C1_GuaranteedRelease ==
  /\ [](InFlightCalls = {} => ~IsTranslating /\ activeController = 0)
  /\ [][(\E c \in Calls : Settles(c)) => ~isCurrentlyTranslating' /\ activeController' = 0]_vars

C1_Witness ==
  /\ InFlightCalls = {}
  /\ \E c \in Calls : pc[c] = "rejected" /\ error[c] = ErrChatFailed
  /\ \E c \in Calls : pc[c] = "resolved" /\ ChatCalls(c) # {}
  /\ ~IsTranslating /\ activeController = 0

\* C2 as stated, for a single translate call: isTranslating() is true exactly
\* when the call has been entered and has not settled.
C2_Original == OneCall => (IsTranslating <=> InFlightCalls # {})

\* C2 as amended: isTranslating() is true only while a translate call is in
\* flight (false before any call and after the last one settled), it is true
\* when a translate call that passes validation has run its synchronous entry,
\* and it turns false only when cancelTranslation() returns true or a translate
\* call settles.
C2_BusyFlag ==
  /\ [](IsTranslating => InFlightCalls # {})
  /\ [][\A c \in Calls : Enters(c) /\ pc'[c] \in InFlightPcs => isCurrentlyTranslating']_vars
  /\ [][isCurrentlyTranslating /\ ~isCurrentlyTranslating'
          => \/ Cancels /\ cancelReturn'
             \/ \E c \in Calls : pc'[c] # pc[c] /\ pc'[c] \in {"resolved", "rejected"}]_vars

C2_Witness == \E c \in Calls : pc[c] = "usage" /\ IsTranslating /\ activeController = c

\* C3 as stated, for a single translate call: cancelTranslation() with no call
\* in flight returns false and changes nothing; with the call in flight it
\* returns true, aborts that call's token and sets the busy flag to false.
C3_Original ==
  [][Cancels /\ OneCall =>
       IF InFlightCalls = {}
       THEN ~cancelReturn' /\ UNCHANGED <<svcVars, aborted>>
       ELSE /\ cancelReturn'
            /\ ~isCurrentlyTranslating'
            /\ \E c \in InFlightCalls : c \in aborted']_vars

\* C3 as amended: cancelTranslation() called while the token slot is empty,
\* which is the case whenever no translate call is in flight, returns false and
\* leaves the flag, the slot and every token unchanged; called while the slot
\* holds a token it returns true, aborts that token, which is the token of a
\* call in flight, empties the slot and sets the busy flag to false.
C3_Cancel ==
  /\ [](InFlightCalls = {} => activeController = 0)
  /\ [][Cancels =>
          IF activeController = 0
          THEN ~cancelReturn' /\ UNCHANGED <<svcVars, aborted>>
          ELSE /\ cancelReturn'
               /\ activeController \in InFlightCalls
               /\ aborted' = aborted \cup {activeController}
               /\ activeController' = 0
               /\ ~isCurrentlyTranslating']_vars

C3_Witness ==
  /\ cancelReturn /\ cancelCount > 0
  /\ ~IsTranslating /\ activeController = 0
  /\ \E c \in aborted : InFlight(c)

\* C4: a translate call between two different languages whose token
\* cancelTranslation() aborted (it returned true) never resolves with a response.
C4_CancelledNeverResolves ==
  \A c \in aborted : ~SameLanguage(c) => pc[c] # "resolved"

SelectedByOrder(c) ==
  LET r == resolution[c] IN
  IF Truthy(request[c].modelName) /\ r.requestedExists = "yes" THEN request[c].modelName
  ELSE IF r.settingsRead /\ Truthy(r.defaultModel) /\ r.defaultExists = "yes" THEN r.defaultModel
  ELSE IF r.listed /\ Len(r.availableModels) > 0 THEN r.availableModels[1]
  ELSE Undefined

\* C6: the resolved model is the requested one if supplied and reported
\* existing, else the settings' default if configured and reported existing,
\* else the head of the backend's list if non-empty, else translate fails with
\* 'No available models found'; each rule is consulted only when the earlier
\* ones did not apply, and a requested model reported nonexistent is not
\* selected by the first rule.
C6_ModelResolution ==
  \A c \in Calls :
    LET r == resolution[c] IN
    /\ Truthy(modelName[c]) => modelName[c] = SelectedByOrder(c)
    /\ pc[c] \in {"chatExists", "chatBackend", "usage", "resolved"} => Truthy(modelName[c])
    /\ r.requestedExists # "na" => Truthy(request[c].modelName)
    /\ r.requestedExists = "yes" => ~r.settingsRead /\ modelName[c] = request[c].modelName
    /\ r.settingsRead => r.requestedExists = "no" \/ ~Truthy(request[c].modelName)
    /\ r.defaultExists # "na" => r.settingsRead /\ Truthy(r.defaultModel)
    /\ r.defaultExists = "yes" => ~r.listed /\ modelName[c] = r.defaultModel
    /\ r.listed => r.settingsRead /\ (r.defaultExists = "no" \/ ~Truthy(r.defaultModel))
    /\ error[c] = ErrNoModels <=>
         pc[c] = "rejected" /\ r.listed /\ SelectedByOrder(c) = Undefined
    /\ (r.requestedExists = "no" /\ modelName[c] = request[c].modelName) =>
         \/ r.defaultExists = "yes" /\ r.defaultModel = request[c].modelName
         \/ r.listed /\ Len(r.availableModels) > 0 /\ r.availableModels[1] = request[c].modelName

C6_Witness ==
  \E c \in Calls :
    /\ request[c].modelName = NameZ
    /\ resolution[c].requestedExists = "no"
    /\ resolution[c].defaultExists = "yes"
    /\ modelName[c] = NameA
    /\ pc[c] = "resolved"

\* C7 as stated: a request whose two languages are equal resolves with
\* translatedText equal to request.text and never invokes chat.
C7_Original ==
  \A c \in Calls :
    SameLanguage(c) =>
      /\ ChatCalls(c) = {}
      /\ pc[c] # "rejected"
      /\ pc[c] = "resolved" => response[c].translatedText = request[c].text

\* C7 as amended: a request whose two languages are present and equal never
\* invokes chat; when model resolution succeeds it resolves with translatedText
\* equal to request.text, and it rejects only with the failure of model
\* resolution (the model list could not be read, or no model is available).
C7_SameLanguage ==
  \A c \in Calls :
    SameLanguage(c) =>
      /\ ChatCalls(c) = {}
      /\ pc[c] \notin {"chatExists", "chatBackend", "usage"}
      /\ Truthy(modelName[c]) =>
           /\ pc[c] = "resolved"
           /\ response[c].translatedText = request[c].text
           /\ response[c].modelUsed = modelName[c]
      /\ pc[c] = "rejected" => error[c] \in {ErrNoModels, ErrListFailed}

C7_Witness ==
  \E c \in Calls :
    /\ SameLanguage(c)
    /\ pc[c] = "resolved"
    /\ request[c].text = <<" ", "h", " ">>
    /\ response[c].translatedText = <<" ", "h", " ">>

\* C8: a request missing sourceLanguage or targetLanguage rejects with 'Source
\* and target languages are required' in the step that enters translate, and
\* that call invokes no operation of the inference client or the settings store.
C8_ValidationFirst ==
  \A c \in Calls :
    (pc[c] # "idle" /\ (request[c].sourceLanguage = NoLang \/ request[c].targetLanguage = NoLang)) =>
      /\ pc[c] = "rejected"
      /\ error[c] = ErrLanguages
      /\ invoked[c] = <<>>

C8_Witness ==
  \E c \in Calls :
    /\ pc[c] = "rejected"
    /\ request[c].sourceLanguage = "en" /\ request[c].targetLanguage = NoLang
    /\ Truthy(request[c].modelName)
    /\ error[c] = ErrLanguages

\* C9: a translate call that fails validation leaves the busy flag and the
\* token slot as they were before the call.
C9_ValidationFrame ==
  [][\A c \in Calls :
       (Enters(c) /\ pc'[c] = "rejected" /\ error'[c] = ErrLanguages) => UNCHANGED svcVars]_vars

\* C10: a translate call invokes chat at most once, with the resolved model as
\* the model argument, which is also the modelUsed of its response; a requested
\* model that exists reaches chat unchanged.
C10_ChatOnceWithResolvedModel ==
  \A c \in Calls :
    /\ Cardinality(ChatCalls(c)) <= 1
    /\ \A i \in ChatCalls(c) : invoked[c][i][3] = modelName[c]
    /\ pc[c] = "resolved" => response[c].modelUsed = modelName[c]
    /\ pc[c] \in {"chatExists", "chatBackend", "usage"} => Cardinality(ChatCalls(c)) = 1
    /\ \A i \in ChatCalls(c) :
         resolution[c].requestedExists = "yes" => invoked[c][i][3] = request[c].modelName

C10_Witness ==
  \E c \in Calls :
    /\ pc[c] = "resolved"
    /\ request[c].modelName = NameA
    /\ resolution[c].requestedExists = "yes"
    /\ \E i \in ChatCalls(c) : invoked[c][i][3] = NameA
    /\ response[c].modelUsed = NameA

UsageCalls(c) ==
  {i \in 1..Len(invoked[c]) : invoked[c][i][1] = "settings" /\ invoked[c][i][2] = "updateModelUsage"}
SuccessResponse(c) ==
  [translatedText |-> translatedText[c], sourceLanguage |-> request[c].sourceLanguage,
   targetLanguage |-> request[c].targetLanguage, modelUsed |-> modelName[c]]

\* C11 as stated: every translate call that resolved has invoked the settings
\* store's updateModelUsage exactly once, with the resolved model name.
C11_Original ==
  \A c \in Calls :
    pc[c] = "resolved" =>
      /\ Cardinality(UsageCalls(c)) = 1
      /\ \A i \in UsageCalls(c) : invoked[c][i][3] = modelName[c]

\* C11 as amended: a translate call that resolved after invoking chat has
\* invoked updateModelUsage exactly once, after chat, with the resolved model
\* name it also reports as modelUsed; a call that resolved by the
\* same-language return has not invoked updateModelUsage; no call invokes it
\* more than once.
C11_UsageOnce ==
  \A c \in Calls :
    /\ Cardinality(UsageCalls(c)) <= 1
    /\ pc[c] = "resolved" =>
         IF SameLanguage(c)
         THEN UsageCalls(c) = {}
         ELSE /\ Cardinality(UsageCalls(c)) = 1
              /\ \A i \in UsageCalls(c) :
                   /\ invoked[c][i][3] = modelName[c]
                   /\ invoked[c][i][3] = response[c].modelUsed
                   /\ \A j \in ChatCalls(c) : j < i

C11_Witness ==
  \E c \in Calls :
    /\ pc[c] = "resolved" /\ ~SameLanguage(c)
    /\ request[c].modelName = NameZ /\ modelName[c] = NameALatest
    /\ UsageCalls(c) # {}

\* C12: a translate call whose updateModelUsage failed after chat succeeded
\* resolves, with the response built from the chat reply, the request's
\* languages and the resolved model, the one it resolves with when
\* updateModelUsage succeeds; no call waiting for updateModelUsage rejects.
C12_UsageFailureIgnored ==
  /\ [](\A c \in warned : pc[c] = "resolved" /\ error[c] = "" /\ response[c] = SuccessResponse(c))
  /\ [][\A c \in Calls : pc[c] = "usage" /\ pc'[c] # "usage" =>
            pc'[c] = "resolved" /\ response'[c] = SuccessResponse(c)]_vars

C12_Witness ==
  \E c \in warned : pc[c] = "resolved" /\ response[c].translatedText = <<"k">>

\* C13: a failure raised to translate by model resolution (listModels threw,
\* or no model is available) or by chat makes the call reject with that very
\* failure and without a response; a failed listModels, an empty list and a
\* failed chat each raise their failure.
C13_FailurePropagated ==
  /\ [](\A c \in Calls : raised[c] # "" =>
          pc[c] = "rejected" /\ error[c] = raised[c] /\ response[c] = NoResponse)
  /\ [][\A c \in Calls :
          /\ pc[c] = "list" /\ pc'[c] # "list" /\ ~resolution'[c].listed => raised'[c] = ErrListFailed
          /\ pc[c] = "list" /\ resolution'[c].listed /\ resolution'[c].availableModels = <<>>
               => raised'[c] = ErrNoModels
          /\ pc[c] = "chatExists" /\ pc'[c] \notin {"chatExists", "chatBackend"}
               => raised'[c] = ErrModelNotFound
          /\ pc[c] = "chatBackend" /\ pc'[c] \notin {"chatBackend", "usage"}
               => raised'[c] = ErrChatFailed]_vars

C13_Witness ==
  \E c \in Calls : raised[c] = ErrListFailed /\ pc[c] = "rejected" /\ error[c] = ErrListFailed

ClientSettled(o) == clientOp[o].pc \in {"done", "failed"}

\* C14: a chat call whose request signal was aborted while ollama.chat() was
\* in flight ends by throwing, not by returning the reply.
C14_ChatHonorsCancellation ==
  \A o \in Ops :
    clientOp[o].kind = "chat" /\ clientOp[o].aborted /\ ClientSettled(o) => clientOp[o].pc = "failed"

\* C15: chat and chatStream issue ollama.chat() at most once and only after
\* their own modelExists(request.model) returned true on a list that was
\* read and holds the model; when it returned false they throw
\* MODEL_NOT_FOUND and no ollama.chat() request was issued; nothing is issued
\* while the check is pending.
C15_ExistenceChecked ==
  \A o \in Ops :
    clientOp[o].kind \in {"chat", "chatStream"} =>
      /\ clientOp[o].chatRequests <= 1
      /\ clientOp[o].chatRequests = 1 =>
           /\ clientOp[o].exists = "true"
           /\ clientOp[o].answer.got = "list"
           /\ ModelExists(clientOp[o].answer.models, clientOp[o].model)
      /\ clientOp[o].exists = "false" =>
           /\ clientOp[o].chatRequests = 0
           /\ clientOp[o].pc = "failed"
           /\ clientOp[o].result = "MODEL_NOT_FOUND"
      /\ clientOp[o].pc = "list" => clientOp[o].chatRequests = 0 /\ clientOp[o].exists = "na"
      /\ clientOp[o].pc \in {"chat", "stream", "done"} => clientOp[o].chatRequests = 1

C15_Witness ==
  \E o, p \in Ops :
    /\ clientOp[o].kind = "chat" /\ clientOp[o].exists = "false" /\ clientOp[o].pc = "failed"
    /\ clientOp[o].answer.got = "list" /\ clientOp[o].chatRequests = 0
    /\ clientOp[p].kind = "chatStream" /\ clientOp[p].pc = "stream" /\ clientOp[p].chatRequests = 1

\* the name without a ":latest" that ends it
StripLatestSuffix(name) ==
  IF name # <<>> /\ name[Len(name)] = Latest THEN SubSeq(name, 1, Len(name) - 1) ELSE name

\* C16: modelExists(name) never throws; it returns false when listing fails
\* and otherwise true exactly when the list holds name, name without its
\* ":latest" suffix, or that base form followed by ":latest".
C16_ModelExists ==
  \A o \in Ops :
    clientOp[o].kind = "modelExists" /\ ClientSettled(o) =>
      /\ clientOp[o].pc = "done"
      /\ clientOp[o].result =
           Bool(/\ clientOp[o].answer.got = "list"
                /\ \E i \in 1..Len(clientOp[o].answer.models) :
                     LET listed == clientOp[o].answer.models[i]
                         base == StripLatestSuffix(clientOp[o].model)
                     IN listed = clientOp[o].model \/ listed = base \/ listed = base \o <<Latest>>)

Refused(o) ==
  \/ clientOp[o].answer.got = "error" /\ clientOp[o].answer.msg = MsgRefused
  \/ clientOp[o].chatMsg = MsgRefused

\* C18: an operation that throws after the backend refused a connection it
\* made throws OLLAMA_NOT_RUNNING.
C18_NotRunning ==
  \A o \in Ops :
    clientOp[o].pc = "failed" /\ Refused(o) => clientOp[o].result = "OLLAMA_NOT_RUNNING"

\* what a caller can tell from the value a translate call rejected with
ErrorKind(e) ==
  CASE e = ErrTypeError -> "TypeError"
    [] e \in {ErrLanguages, ErrNoModels} -> "Error"
    [] e \in {ErrListFailed, ErrModelNotFound, ErrChatFailed} -> "TranslationError"
    [] OTHER -> "none"

\* C19: a single translate call that was cancelled and then rejected without
\* any failure of model resolution or chat rejected with a Cancelled error.
C19_CancelledKind ==
  \A c \in aborted :
    OneCall /\ pc[c] = "rejected" /\ Valid(request[c]) /\ raised[c] = "" =>
      ErrorKind(error[c]) = "Cancelled"

\* C20: once every repository operation called has ended, a getSettings call
\* made after an addModel call whose store write failed has returned, not
\* thrown, and has returned the empty default settings if it found nothing
\* stored, could not read the store or read invalid data.
C20_DefaultsReturned ==
  (\A o \in RepoOps : repoOp[o].pc \in {"idle", "returned", "threw"}) =>
     \A o \in RepoOps :
       (/\ repoOp[o].kind = "getSettings"
        /\ \E p \in 1..(o - 1) : repoOp[p].pc = "threw" /\ repoOp[p].kind = "addModel") =>
         /\ repoOp[o].pc = "returned"
         /\ repoOp[o].read \in {"nothing", "failed", "invalid"} => repoOp[o].result = EmptySettings

\* after differs from before in nothing but the lastUsed of the model name
OnlyLastUsed(before, after, name) ==
  /\ after.defaultModel = before.defaultModel
  /\ Len(after.models) = Len(before.models)
  /\ \A i \in 1..Len(before.models) :
       \/ after.models[i] = before.models[i]
       \/ /\ before.models[i].name = name
          /\ after.models[i] = [before.models[i] EXCEPT !.lastUsed = after.models[i].lastUsed]

\* C21: the store write of an updateModelUsage(name) call that read valid
\* stored settings changes nothing in the stored settings but the lastUsed of
\* the model name, whatever other repository operations ran since its read.
C21_OnlyLastUsed ==
  [][\A o \in RepoOps :
       (/\ repoOp[o].kind = "updateModelUsage"
        /\ repoOp[o].read = "valid"
        /\ repoOp[o].pc = "set"
        /\ repoOp'[o].pc = "returned") =>
          OnlyLastUsed(store.data, store'.data, repoOp[o].model.name)]_vars

DefaultFlagged(settings) == {i \in 1..Len(settings.models) : settings.models[i].isDefault}

\* C22: in every persisted settings snapshot at most one registered model has
\* isDefault = true.
C22_OneDefaultFlag ==
  store.kind = "valid" => Cardinality(DefaultFlagged(store.data)) <= 1

Registered(settings, name) == \E i \in 1..Len(settings.models) : settings.models[i].name = name

\* C23: when a removeModel(name) call returns, the settings it persisted have,
\* if name was the default model in the settings it read, a defaultModel that
\* names a model still registered, or no defaultModel when no model remains;
\* if name was not the default, the defaultModel it read.
C23_DefaultReassigned ==
  [][\A o \in RepoOps :
       (/\ repoOp[o].kind = "removeModel"
        /\ repoOp[o].pc = "set"
        /\ repoOp'[o].pc = "returned") =>
          LET was == repoOp[o].settings
              now == store'.data
          IN IF was.defaultModel = repoOp[o].model.name
             THEN IF now.models = <<>> THEN now.defaultModel = Undefined
                  ELSE Registered(now, now.defaultModel)
             ELSE now.defaultModel = was.defaultModel]_vars

\* a removeModel of the default model, with another model registered, has
\* returned and the other model is the persisted default
C23_Witness ==
  \E o \in RepoOps :
    /\ repoOp[o].kind = "removeModel"
    /\ repoOp[o].pc = "returned"
    /\ repoOp[o].settings.defaultModel = repoOp[o].model.name
    /\ Len(repoOp[o].settings.models) = 2
    /\ store.kind = "valid"
    /\ store.data.defaultModel = NameB
    /\ Registered(store.data, NameB)

\* C24: when an addModel call that read settings with no registered model
\* returns, the model it added is the persisted defaultModel.
C24_FirstModelDefault ==
  [][\A o \in RepoOps :
       (/\ repoOp[o].kind = "addModel"
        /\ repoOp[o].settings.models = <<>>
        /\ repoOp[o].pc = "set"
        /\ repoOp'[o].pc = "returned") =>
          store'.data.defaultModel = repoOp[o].model.name]_vars

\* C28: the persisted defaultModel is unset or the name of a registered model.
C28_DefaultRegistered ==
  store.kind = "valid" =>
    \/ store.data.defaultModel = Undefined
    \/ Registered(store.data, store.data.defaultModel)

\* the settings a store holds: nothing stored and invalid data count as the
\* empty settings
Persisted(stored) == IF stored.kind = "valid" THEN stored.data ELSE EmptySettings

\* C29: when the models router's addModel has thrown, and no other handler
\* has called the repository, the persisted settings equal the settings
\* persisted when the call was made.
C29_AddModelAtomic ==
  (/\ routerCall.pc = "threw"
   /\ \A o \in RepoOps : repoOp[o].pc # "idle" => repoOp[o].by = "router") =>
     Persisted(store) = Persisted(routerCall.before)

\* C27: the signal a translate call hands to chat is the signal of the token
\* that call created at its entry, and no call finds the token slot empty
\* when it reads the signal.
C27_OwnSignal ==
  \A c \in Calls :
    /\ signal[c] # 0 => signal[c] = c
    /\ error[c] # ErrTypeError

\* an isConnected, listModels, modelExists or chat operation is in flight for
\* o: its ollama.list() request (chat and chatStream wait for it inside
\* modelExists) or the ollama.chat() request of a chat call is outstanding
NamedInFlight(o) ==
  \/ clientOp[o].pc = "list"
  \/ clientOp[o].kind = "chat" /\ clientOp[o].pc = "chat"

\* C30: whenever no isConnected, listModels, modelExists or chat operation is
\* in flight, connectionStatus is not "connecting".
C30_NotLeftConnecting ==
  (\A o \in Ops : ~NamedInFlight(o)) => connectionStatus # "connecting"

\* two operations that set "connecting" overlapped, the backend failed one of
\* them, and both have ended
C30_Witness ==
  /\ \A o \in Ops : clientOp[o].pc \in {"done", "failed"}
  /\ \A o \in Ops : clientOp[o].kind \in StatusUsers
  /\ \E o \in Ops : clientOp[o].pc = "failed"
  /\ \E o \in Ops : clientOp[o].pc = "done"
  /\ connectionStatus \in {"connected", "error"}

\* a request object the boundary is to reject: text empty, a language outside
\* the closed set, or modelName present but empty
InvalidInput(input) ==
  \/ ~input.text.present \/ input.text.value = <<>>
  \/ input.sourceLanguage.present /\ input.sourceLanguage.value \notin {"en", "ja"}
  \/ input.targetLanguage.present /\ input.targetLanguage.value \notin {"en", "ja"}
  \/ input.modelName.present /\ input.modelName.value = <<>>

\* C25: a translate or translateText request whose text is empty, whose
\* sourceLanguage or targetLanguage is outside {en, ja} or whose modelName is
\* present but empty is rejected and translationService.translate is not
\* called for it.
C25_InvalidRejected ==
  (boundaryCall.pc \in {"translate", "rejected"} /\ InvalidInput(boundaryCall.input)) =>
     boundaryCall.pc = "rejected"

\* C26: all getTranslationService calls that returned, returned the same
\* TranslationService object.
C26_OneInstance ==
  \A g, h \in Gets :
    (/\ getCall[g].getter = "getTranslationService" /\ getCall[g].pc = "returned"
     /\ getCall[h].getter = "getTranslationService" /\ getCall[h].pc = "returned") =>
       getCall[g].result = getCall[h].result
====
